---- MODULE Spec2Model ----
(***************************************************************************)
(* Model of src/frontend/location.js: the browser page script that         *)
(* acquires the position once, reports it (POST /api/send-location), and   *)
(* polls GET /api/get-latest-weather on a 10 second timer, rendering each  *)
(* response into the named regions of the page.                            *)
(*                                                                         *)
(* JavaScript values are tagged records, so that values of different       *)
(* JavaScript types are different TLA+ values:                             *)
(*   [t |-> "undefined"], [t |-> "null"], [t |-> "number", n |-> 3],       *)
(*   [t |-> "string", s |-> "Clear"], and an ISO-8601 string is            *)
(*   [t |-> "string", iso |-> [y, mo, d, h, mi, sec]].                     *)
(* Template strings are records of the interpolated parts.                 *)
(***************************************************************************)
EXTENDS Integers, Sequences, FiniteSets, TLC

VARIABLES
    geoSupported,    \* navigator.geolocation is present (environment, fixed)
    hasErrorRegion,  \* the page has an element "location-error" (markup, fixed)
    loaded,          \* window.onload has run
    geo,             \* "idle" | "pending" | "ok" | "failed" | "unsupported"
    report,          \* POST /api/send-location: "none" | "sent" | "acked" | "failed"
    inflight,        \* GET /api/get-latest-weather requests not yet settled, in issue order
    hasInitialData,  \* the latch of line 9
    dom,             \* the regions the script writes
    hist,            \* history of what has been issued and written
    last,            \* the event the last step handled
    fmtIn,           \* arguments of the last formatTimestamp call checked on its own
    fmtOut,          \* its result
    iconIn,          \* argument of the getWeatherIcon call checked on its own
    iconOut          \* its result

vars == <<geoSupported, hasErrorRegion, loaded, geo, report, inflight,
          hasInitialData, dom, hist, last, fmtIn, fmtOut, iconIn, iconOut>>

(***************************************************************************)
(* Bounds                                                                  *)
(***************************************************************************)
\* weather requests that may be in flight together (the code has no limit)
MaxInFlight == 2
\* the history counters stop counting here
MaxCount == 2

(***************************************************************************)
(* JavaScript values                                                       *)
(***************************************************************************)
Undef == [t |-> "undefined"]
Null == [t |-> "null"]
Num(n) == [t |-> "number", n |-> n]
Str(s) == [t |-> "string", s |-> s]
Iso(y, mo, d, h, mi, sec) ==
    [t |-> "string", iso |-> [y |-> y, mo |-> mo, d |-> d, h |-> h, mi |-> mi, sec |-> sec]]

IsIso(v) == v.t = "string" /\ "iso" \in DOMAIN v

\* ToBoolean: undefined, null, 0 and "" are falsy; every other value is truthy
Truthy(v) ==
    CASE v.t = "undefined" -> FALSE
      [] v.t = "null" -> FALSE
      [] v.t = "number" -> v.n # 0
      [] v.t = "string" -> IF IsIso(v) THEN TRUE ELSE v.s # ""
      [] OTHER -> TRUE

\* a || b
OrElse(a, b) == IF Truthy(a) THEN a ELSE b

(***************************************************************************)
(* Date: time values are whole seconds since 1970-01-01T00:00:00Z (the     *)
(* code's milliseconds divided by 1000; the inputs carry no milliseconds). *)
(* An invalid Date has the time value NaN.                                 *)
(***************************************************************************)
NaN == [ok |-> FALSE]
Time(sec) == [ok |-> TRUE, sec |-> sec]

SecondsPerDay == 24 * 3600

IsLeapYear(y) == (y % 4 = 0 /\ y % 100 # 0) \/ y % 400 = 0

DaysInMonth(y, mo) ==
    CASE mo \in {4, 6, 9, 11} -> 30
      [] mo = 2 -> IF IsLeapYear(y) THEN 29 ELSE 28
      [] OTHER -> 31

\* MakeDay: days from 1970-01-01 to the civil date y-mo-d
DaysFromCivil(y, mo, d) ==
    LET yy == IF mo <= 2 THEN y - 1 ELSE y
        era == yy \div 400
        yoe == yy - era * 400
        mp == IF mo > 2 THEN mo - 3 ELSE mo + 9
        doy == (153 * mp + 2) \div 5 + d - 1
        doe == yoe * 365 + yoe \div 4 - yoe \div 100 + doy
    IN  era * 146097 + doe - 719468

\* YearFromTime, MonthFromTime, DateFromTime of a day number
CivilFromDays(z) ==
    LET zz == z + 719468
        era == zz \div 146097
        doe == zz - era * 146097
        yoe == (doe - doe \div 1460 + doe \div 36524 - doe \div 146096) \div 365
        doy == doe - (365 * yoe + yoe \div 4 - yoe \div 100)
        mp == (5 * doy + 2) \div 153
        d == doy - (153 * mp + 2) \div 5 + 1
        mo == IF mp < 10 THEN mp + 3 ELSE mp - 9
        y == yoe + era * 400 + (IF mo <= 2 THEN 1 ELSE 0)
    IN  [y |-> y, mo |-> mo, d |-> d]

\* the ISO-8601 date-time format of Date.parse: every field in its range
IsoFieldsValid(f) ==
    /\ f.mo \in 1..12
    /\ f.d \in 1..DaysInMonth(f.y, f.mo)
    /\ f.h \in 0..23
    /\ f.mi \in 0..59
    /\ f.sec \in 0..59

\* values whose conversion to a number throws a TypeError
ToNumberThrows(v) == v.t \in {"symbol", "bigint"}

\* new Date(isoString).getTime()
DateParse(v) ==
    CASE v.t = "null" -> Time(0)
      [] v.t = "number" -> Time(v.n \div 1000)
      [] IsIso(v) ->
            IF IsoFieldsValid(v.iso)
            THEN Time(DaysFromCivil(v.iso.y, v.iso.mo, v.iso.d) * SecondsPerDay
                      + v.iso.h * 3600 + v.iso.mi * 60 + v.iso.sec)
            ELSE NaN
      [] OTHER -> NaN

\* utcDate.getTime() + offsetSeconds * 1000, NaN when either side is NaN
AddOffset(tv, offsetSeconds) ==
    IF tv.ok /\ offsetSeconds.t = "number" THEN Time(tv.sec + offsetSeconds.n) ELSE NaN

MonthShort(mo) ==
    <<"Jan", "Feb", "Mar", "Apr", "May", "Jun",
      "Jul", "Aug", "Sep", "Oct", "Nov", "Dec">>[mo]

\* toLocaleString("en-US", {hour: "2-digit", minute: "2-digit", month: "short",
\* day: "numeric", timeZone: "UTC"}): "Invalid Date" for NaN, else e.g. "Jan 5, 03:07 PM"
ToLocaleString(tv) ==
    IF ~tv.ok THEN Str("Invalid Date")
    ELSE LET day == tv.sec \div SecondsPerDay
             rest == tv.sec - day * SecondsPerDay
             c == CivilFromDays(day)
             h == rest \div 3600
         IN  [t |-> "string",
              fmt |-> [month |-> MonthShort(c.mo),
                       day |-> c.d,
                       hour |-> IF h % 12 = 0 THEN 12 ELSE h % 12,
                       minute |-> (rest % 3600) \div 60,
                       dayPeriod |-> IF h < 12 THEN "AM" ELSE "PM"]]

formatTimestamp(isoString, offsetSeconds) ==
    IF ToNumberThrows(isoString) \/ ToNumberThrows(offsetSeconds)
    THEN Str("N/A")
    ELSE ToLocaleString(AddOffset(DateParse(isoString), offsetSeconds))

\* the names every object literal inherits from Object.prototype
ObjectPrototypeKeys ==
    {"constructor", "toString", "toLocaleString", "valueOf", "hasOwnProperty",
     "isPrototypeOf", "propertyIsEnumerable", "__proto__"}

\* icons[name] for an inherited name, as className shows it: the source text of
\* the inherited function, or "[object Object]" for the prototype itself
InheritedAsClass(name) ==
    CASE name = "constructor" -> "function Object() { [native code] }"
      [] name = "__proto__" -> "[object Object]"
      [] name = "toString" -> "function toString() { [native code] }"
      [] name = "toLocaleString" -> "function toLocaleString() { [native code] }"
      [] name = "valueOf" -> "function valueOf() { [native code] }"
      [] name = "hasOwnProperty" -> "function hasOwnProperty() { [native code] }"
      [] name = "isPrototypeOf" -> "function isPrototypeOf() { [native code] }"
      [] OTHER -> "function propertyIsEnumerable() { [native code] }"

\* icons[condition] || "fas fa-cloud": the lookup finds the five own keys and
\* the names the literal inherits, whose values are truthy
getWeatherIcon(condition) ==
    LET icons == [Clouds |-> "fas fa-cloud",
                  Clear |-> "fas fa-sun",
                  Rain |-> "fas fa-cloud-rain",
                  Snow |-> "fas fa-snowflake",
                  Thunderstorm |-> "fas fa-bolt"]
    IN  IF condition.t = "string" /\ ~IsIso(condition) /\ condition.s \in DOMAIN icons
        THEN icons[condition.s]
        ELSE IF condition.t = "string" /\ ~IsIso(condition)
                /\ condition.s \in ObjectPrototypeKeys
        THEN InheritedAsClass(condition.s)
        ELSE "fas fa-cloud"

(***************************************************************************)
(* The server's answers                                                    *)
(***************************************************************************)
\* a weather object of the backend; an absent field reads as undefined
Weather(city, country, condition, description, temperature, feels_like, humidity, wind_speed, aqi, timestamp, timezone_offset) ==
    [t |-> "object", city |-> city, country |-> country, condition |-> condition,
     description |-> description, temperature |-> temperature,
     feels_like |-> feels_like, humidity |-> humidity, wind_speed |-> wind_speed,
     aqi |-> aqi, timestamp |-> timestamp, timezone_offset |-> timezone_offset]

WeatherA ==
    Weather(Str("Pune"), Str("IN"), Str("Clear"), Str("clear sky"), Num(31), Num(33),
            Num(40), Num(3), Num(2), Iso(2024, 2, 29, 20, 15, 0), Num(19800))
WeatherB ==
    Weather(Str("Oslo"), Str("NO"), Str("Snow"), Str("light snow"), Num(-4), Num(-9),
            Num(85), Num(6), Undef, Iso(2024, 12, 31, 23, 30, 0), Undef)
WeatherC ==
    Weather(Str("Lima"), Str("PE"), Str("Fog"), Str("fog"), Num(18), Num(18),
            Num(93), Num(1), Num(0), Str("not-a-date"), Num(-18000))

WeatherObjects == {WeatherA, WeatherB, WeatherC}

\* the parsed body of GET /api/get-latest-weather: an object with either key, both or none
Data(mongodb_weather, postgresql_weather) ==
    [t |-> "object", mongodb_weather |-> mongodb_weather,
     postgresql_weather |-> postgresql_weather]

JsonBodies ==
    {Null, Data(Undef, Undef), Data(Null, Null), Data(WeatherA, Undef),
     Data(WeatherC, Undef), Data(Undef, WeatherB), Data(Null, WeatherB),
     Data(WeatherA, WeatherB)}

\* a body that is not JSON: response.json() rejects with a SyntaxError
Unparsable == [t |-> "unparsable"]

\* a settled fetch: the promise rejects (network failure), or resolves to a response
NetworkFailure == [r |-> "reject"]
Http(status, body) == [r |-> "http", status |-> status, body |-> body]

Responses ==
    {NetworkFailure}
        \cup {Http(500, b) : b \in {Unparsable, Data(WeatherA, Undef)}}
        \cup {Http(200, b) : b \in {Unparsable} \cup JsonBodies}

\* response.ok
Ok(response) == response.status \in 200..299

\* the promise of fetch(...).then(handleResponse): rejected, or fulfilled with the data
Rejected == [fulfilled |-> FALSE]
Fulfilled(value) == [fulfilled |-> TRUE, value |-> value]

handleResponse(response) ==
    IF ~Ok(response) THEN Rejected
    ELSE IF response.body = Unparsable THEN Rejected
    ELSE Fulfilled(response.body)

\* fetch(url).then(handleResponse)
FetchThenHandle(settled) ==
    IF settled.r = "reject" THEN Rejected ELSE handleResponse(settled)

(***************************************************************************)
(* The page: the regions the script writes, by element id                  *)
(***************************************************************************)
\* the markup's own content of a region, before the script writes it
Markup == [k |-> "markup"]
\* no such element
NoElement == [k |-> "none"]
Text(m) == [k |-> "text", m |-> m]

CaptionText == Text("Current weather information")
WeatherErrorText == Text("Error loading weather data")
ReportErrorText == Text("Error sharing location. Please try again.")
UnsupportedText == Text("Geolocation is not supported by this browser.")

InitDom(errorRegion) ==
    [locationName |-> Markup, lastUpdated |-> Markup, icon |-> Markup,
     forecast |-> Markup, humidity |-> Markup, wind |-> Markup,
     aqiText |-> Markup, aqiClass |-> Markup,
     locationError |-> IF errorRegion THEN Markup ELSE NoElement]

\* showLocationError without the fallback to the forecast region
showLocationError_NoFallback(d, message) ==
    IF d.locationError # NoElement
    THEN [d EXCEPT !.locationError = Text(message)]
    ELSE d

showLocationError(d, message) ==
    IF d.locationError # NoElement
    THEN [d EXCEPT !.locationError = Text(message)]
    ELSE [d EXCEPT !.forecast = Text(message)]

handleLocationError(d) == showLocationError(d, ReportErrorText.m)

\* the table with the messages of codes 2 and 3 exchanged
GeoMessage_Swapped(code) ==
    CASE code = 1 -> "Location access denied. Please enable permissions"
      [] code = 2 -> "Location request timed out"
      [] code = 3 -> "Location unavailable"
      [] OTHER -> "Error getting location"

\* messages[err.code] || "Error getting location"
GeoMessage(code) ==
    CASE code = 1 -> "Location access denied. Please enable permissions"
      [] code = 2 -> "Location unavailable"
      [] code = 3 -> "Location request timed out"
      [] OTHER -> "Error getting location"

error(d, code) == showLocationError(d, GeoMessage(code))

\* a failure handler that reports through showLocationError: the message goes to
\* the location-error region when the page has one
handleWeatherError_ViaLocationError(d) == showLocationError(d, WeatherErrorText.m)

\* lines 112-116: the message goes to the forecast region
handleWeatherError(d) == [d EXCEPT !.forecast = WeatherErrorText]

\* the selection with the keys in the other order
SelectWeather_PrefersPostgres(data) == OrElse(data.postgresql_weather, data.mongodb_weather)

\* data.mongodb_weather || data.postgresql_weather
SelectWeather(data) == OrElse(data.mongodb_weather, data.postgresql_weather)

\* reading a property of null or undefined throws a TypeError
UpdateThrows(data) == data.t \in {"null", "undefined"}

\* aqiElement.textContent and aqiElement.className
AqiText(weather) == OrElse(weather.aqi, Str("--"))
AqiClass(weather) == [k |-> "class", prefix |-> "info-value aqi-",
                      value |-> OrElse(weather.aqi, Str("unknown"))]

\* a render that leaves the badge alone when the record has no aqi:
\* if (weather.aqi) { ... }
Render_SkipsAbsentAqi(d, weather) ==
    LET tzOffset == OrElse(weather.timezone_offset, Num(0))
    IN  [d EXCEPT
           !.locationName = [k |-> "place", city |-> weather.city,
                             country |-> weather.country],
           !.lastUpdated = [k |-> "updated",
                            at |-> formatTimestamp(weather.timestamp, tzOffset)],
           !.icon = [k |-> "class", name |-> getWeatherIcon(weather.condition)],
           !.forecast = [k |-> "block", condition |-> weather.condition,
                         description |-> weather.description,
                         temperature |-> weather.temperature,
                         feels_like |-> weather.feels_like],
           !.humidity = [k |-> "percent", value |-> weather.humidity],
           !.wind = [k |-> "speed", value |-> weather.wind_speed],
           !.aqiText = IF Truthy(weather.aqi) THEN weather.aqi ELSE @,
           !.aqiClass = IF Truthy(weather.aqi)
                        THEN [k |-> "class", prefix |-> "info-value aqi-",
                              value |-> weather.aqi]
                        ELSE @]

Render(d, weather) ==
    LET tzOffset == OrElse(weather.timezone_offset, Num(0))
    IN  [d EXCEPT
           !.locationName = [k |-> "place", city |-> weather.city,
                             country |-> weather.country],
           !.lastUpdated = [k |-> "updated",
                            at |-> formatTimestamp(weather.timestamp, tzOffset)],
           !.icon = [k |-> "class", name |-> getWeatherIcon(weather.condition)],
           !.forecast = [k |-> "block", condition |-> weather.condition,
                         description |-> weather.description,
                         temperature |-> weather.temperature,
                         feels_like |-> weather.feels_like],
           !.humidity = [k |-> "percent", value |-> weather.humidity],
           !.wind = [k |-> "speed", value |-> weather.wind_speed],
           !.aqiText = AqiText(weather),
           !.aqiClass = AqiClass(weather)]

\* updateWeatherDisplay of a data that does not throw
updateWeatherDisplay(d, data) ==
    LET weather == SelectWeather(data)
    IN  IF ~Truthy(weather) THEN d ELSE Render(d, weather)

\* the callback of lines 28-35 without the assignment of line 31
OnWeatherData_NoLatch(d, latch, data) ==
    IF ~latch
    THEN [dom |-> [updateWeatherDisplay(d, data) EXCEPT !.forecast = CaptionText],
          hasInitialData |-> FALSE, caption |-> TRUE, failed |-> FALSE]
    ELSE [dom |-> updateWeatherDisplay(d, data), hasInitialData |-> latch,
          caption |-> FALSE, failed |-> FALSE]

\* the callback of lines 28-35, for a data that does not throw
OnWeatherData(d, latch, data) ==
    LET shown == updateWeatherDisplay(d, data)
    IN  IF ~latch
        THEN [dom |-> [shown EXCEPT !.forecast = CaptionText],
              hasInitialData |-> TRUE, caption |-> TRUE, failed |-> FALSE]
        ELSE [dom |-> shown, hasInitialData |-> latch, caption |-> FALSE,
              failed |-> FALSE]

\* a poll cycle whose failure handler also resets the latch
PollCycle_ResetsLatch(d, latch, settled) ==
    LET p == FetchThenHandle(settled)
    IN  IF ~p.fulfilled \/ UpdateThrows(p.value)
        THEN [dom |-> handleWeatherError(d), hasInitialData |-> FALSE,
              caption |-> FALSE, failed |-> TRUE]
        ELSE OnWeatherData(d, latch, p.value)

\* what a poll cycle leaves once its fetch has settled (lines 26-36)
PollCycle(d, latch, settled) ==
    LET p == FetchThenHandle(settled)
    IN  IF ~p.fulfilled \/ UpdateThrows(p.value)
        THEN [dom |-> handleWeatherError(d), hasInitialData |-> latch,
              caption |-> FALSE, failed |-> TRUE]
        ELSE OnWeatherData(d, latch, p.value)

\* the chain with the catch before the fetch:
\* .then(handleResponse).catch(handleLocationError).then(fetchWeatherData)
ReportChain_CatchFirst(d, settled) ==
    IF FetchThenHandle(settled).fulfilled
    THEN [report |-> "acked", fetch |-> TRUE, dom |-> d]
    ELSE [report |-> "failed", fetch |-> TRUE, dom |-> handleLocationError(d)]

\* the chain without .then(fetchWeatherData)
ReportChain_NoFetch(d, settled) ==
    IF FetchThenHandle(settled).fulfilled
    THEN [report |-> "acked", fetch |-> FALSE, dom |-> d]
    ELSE [report |-> "failed", fetch |-> FALSE, dom |-> handleLocationError(d)]

\* what the promise chain of lines 15-22 does once the POST has settled: the
\* report's fate, whether fetchWeatherData is called, and the page
ReportChain(d, settled) ==
    IF FetchThenHandle(settled).fulfilled
    THEN [report |-> "acked", fetch |-> TRUE, dom |-> d]
    ELSE [report |-> "failed", fetch |-> FALSE, dom |-> handleLocationError(d)]

(***************************************************************************)
(* State machine                                                           *)
(***************************************************************************)
Count(n) == IF n < MaxCount THEN n + 1 ELSE n

\* the positions the geolocation capability may yield
Coordinates == {[latitude |-> 18, longitude |-> 73], [latitude |-> -33, longitude |-> 151]}

\* the codes of a GeolocationPositionError, and one outside them
ErrorCodes == {1, 2, 3, 4}

\* a weather request in flight; overtaken records (history) that the response
\* of a request issued after it has been rendered already
Request(src) == [url |-> "/api/get-latest-weather", src |-> src, overtaken |-> FALSE]

InitPage ==
    /\ geoSupported \in BOOLEAN
    /\ hasErrorRegion \in BOOLEAN
    /\ loaded = FALSE
    /\ geo = "idle"
    /\ report = "none"
    /\ inflight = <<>>
    /\ hasInitialData = FALSE
    /\ dom = InitDom(hasErrorRegion)
    /\ hist = [chain |-> 0, timer |-> FALSE, captions |-> 0, rendered |-> FALSE,
               posts |-> 0, queries |-> 0]
    /\ last = [kind |-> "script"]

Init ==
    /\ InitPage
    /\ fmtIn = <<>>
    /\ fmtOut = <<>>
    /\ iconIn = <<>>
    /\ iconOut = <<>>

\* window.onload, lines 1-7
OnLoad ==
    /\ ~loaded
    /\ loaded' = TRUE
    /\ IF geoSupported
       THEN /\ geo' = "pending"
            /\ dom' = dom
       ELSE /\ geo' = "unsupported"
            /\ dom' = showLocationError(dom, UnsupportedText.m)
    /\ hist' = [hist EXCEPT !.queries = IF geoSupported THEN Count(@) ELSE @]
    /\ last' = [kind |-> "onload"]
    /\ UNCHANGED <<geoSupported, hasErrorRegion, report, inflight, hasInitialData,
                   fmtIn, fmtOut, iconIn, iconOut>>

\* the success callback with the fetch called at once instead of chained:
\* .then(fetchWeatherData())
GeoSuccess_CallsFetch(position) ==
    /\ geo = "pending"
    /\ geo' = "ok"
    /\ report' = "sent"
    /\ inflight' = Append(inflight, Request("chain"))
    /\ hist' = [hist EXCEPT !.posts = Count(@), !.chain = Count(@)]
    /\ last' = [kind |-> "position", url |-> "/api/send-location", body |-> position]
    /\ UNCHANGED <<geoSupported, hasErrorRegion, loaded, hasInitialData,
                   dom, fmtIn, fmtOut, iconIn, iconOut>>

\* the success callback under watchPosition: the query stays open and calls
\* back again
GeoSuccess_Watch(position) ==
    /\ geo = "pending"
    /\ geo' = "pending"
    /\ report' = "sent"
    /\ hist' = [hist EXCEPT !.posts = Count(@)]
    /\ last' = [kind |-> "position", url |-> "/api/send-location", body |-> position]
    /\ UNCHANGED <<geoSupported, hasErrorRegion, loaded, inflight, hasInitialData,
                   dom, fmtIn, fmtOut, iconIn, iconOut>>

\* the success callback of getCurrentPosition, lines 11-23
GeoSuccess(position) ==
    /\ geo = "pending"
    /\ geo' = "ok"
    /\ report' = "sent"
    /\ hist' = [hist EXCEPT !.posts = Count(@)]
    /\ last' = [kind |-> "position", url |-> "/api/send-location", body |-> position]
    /\ UNCHANGED <<geoSupported, hasErrorRegion, loaded, inflight, hasInitialData,
                   dom, fmtIn, fmtOut, iconIn, iconOut>>

\* the error callback of getCurrentPosition, lines 98-105
GeoError(code) ==
    /\ geo = "pending"
    /\ geo' = "failed"
    /\ dom' = error(dom, code)
    /\ last' = [kind |-> "positionError", code |-> code]
    /\ UNCHANGED <<geoSupported, hasErrorRegion, loaded, report, inflight,
                   hasInitialData, hist, fmtIn, fmtOut, iconIn, iconOut>>

\* the POST of lines 15-22 settles: .then(handleResponse).then(fetchWeatherData)
\* .catch(handleLocationError)
ReportSettle(settled) ==
    /\ report = "sent"
    /\ \E c \in {ReportChain(dom, settled)} :
           /\ report' = c.report
           /\ dom' = c.dom
           /\ inflight' = IF c.fetch THEN Append(inflight, Request("chain")) ELSE inflight
           /\ hist' = [hist EXCEPT !.chain = IF c.fetch THEN Count(@) ELSE @]
    /\ last' = [kind |-> "report", settled |-> settled]
    /\ UNCHANGED <<geoSupported, hasErrorRegion, loaded, geo, hasInitialData,
                   fmtIn, fmtOut, iconIn, iconOut>>

\* a timer that fires once: setTimeout in the place of setInterval
TimerFire_OneShot ==
    /\ ~hist.timer
    /\ Len(inflight) < MaxInFlight
    /\ inflight' = Append(inflight, Request("timer"))
    /\ hist' = [hist EXCEPT !.timer = TRUE]
    /\ last' = [kind |-> "timer"]
    /\ UNCHANGED <<geoSupported, hasErrorRegion, loaded, geo, report,
                   hasInitialData, dom, fmtIn, fmtOut, iconIn, iconOut>>

\* the interval timer of line 131 fires: fetchWeatherData issues its request
TimerFire ==
    /\ Len(inflight) < MaxInFlight
    /\ inflight' = Append(inflight, Request("timer"))
    /\ hist' = [hist EXCEPT !.timer = TRUE]
    /\ last' = [kind |-> "timer"]
    /\ UNCHANGED <<geoSupported, hasErrorRegion, loaded, geo, report,
                   hasInitialData, dom, fmtIn, fmtOut, iconIn, iconOut>>

Remove(seq, i) == SubSeq(seq, 1, i - 1) \o SubSeq(seq, i + 1, Len(seq))

\* the requests issued before the i-th, marked as overtaken
Overtake(seq, i) ==
    [j \in 1..Len(seq) |-> IF j < i THEN [seq[j] EXCEPT !.overtaken = TRUE] ELSE seq[j]]

\* the i-th weather request in flight settles, lines 26-36
WeatherSettle(i, settled) ==
    /\ i \in 1..Len(inflight)
    /\ \E c \in {PollCycle(dom, hasInitialData, settled)} :
           /\ dom' = c.dom
           /\ hasInitialData' = c.hasInitialData
           /\ hist' = [hist EXCEPT
                         !.captions = IF c.caption THEN Count(@) ELSE @,
                         !.rendered = @ \/ (~c.failed /\ Truthy(SelectWeather(settled.body)))]
           /\ last' = [kind |-> "weather", settled |-> settled, failed |-> c.failed,
                       overtaken |-> inflight[i].overtaken]
           /\ inflight' = IF ~c.failed /\ Truthy(SelectWeather(settled.body))
                          THEN Remove(Overtake(inflight, i), i)
                          ELSE Remove(inflight, i)
    /\ UNCHANGED <<geoSupported, hasErrorRegion, loaded, geo, report, fmtIn, fmtOut, iconIn, iconOut>>

Next ==
    \/ OnLoad
    \/ \E position \in Coordinates : GeoSuccess(position)
    \/ \E code \in ErrorCodes : GeoError(code)
    \/ \E settled \in Responses : ReportSettle(settled)
    \/ TimerFire
    \/ \E i \in 1..MaxInFlight + 1, settled \in Responses : WeatherSettle(i, settled)

Spec == Init /\ [][Next]_vars

\* The page's scheduling: the interval timer keeps firing while the page lives, and
\* every fetch settles.
FairSpec ==
    /\ Spec
    /\ WF_vars(TimerFire)
    /\ WF_vars(\E i \in 1..MaxInFlight + 1, settled \in Responses : WeatherSettle(i, settled))

(***************************************************************************)
(* formatTimestamp on its own                                              *)
(***************************************************************************)
\* well-formed ISO-8601 UTC timestamps
ValidTimestamps ==
    {Iso(y, mo, d, h, mi, 0) :
        y \in {2023, 2024}, mo \in {1, 2, 12}, d \in {1, 28}, h \in {0, 11, 12, 23},
        mi \in {0, 59}}
        \cup {Iso(2024, 2, 29, 20, 15, 0), Iso(2024, 12, 31, 23, 30, 0)}

\* strings that are no timestamp, and timestamps with a field out of its range
MalformedTimestamps ==
    {Str("not-a-date"), Str(""),
     Iso(2024, 13, 1, 0, 0, 0), Iso(2024, 1, 32, 0, 0, 0), Iso(2024, 1, 1, 25, 0, 0)}

\* a value that new Date cannot convert
Symbol == [t |-> "symbol"]

\* timezone offsets in seconds, UTC-12 to UTC+14
Offsets == {Num(-43200), Num(-18000), Num(0), Num(3600), Num(19800), Num(50400)}

FmtInit ==
    /\ InitPage
    /\ fmtIn \in (ValidTimestamps \cup MalformedTimestamps \cup {Undef, Symbol}) \X Offsets
    /\ fmtOut = <<>>
    /\ iconIn = <<>>
    /\ iconOut = <<>>

\* one call formatTimestamp(isoString, offsetSeconds)
FormatCall ==
    /\ fmtOut = <<>>
    /\ fmtOut' = <<formatTimestamp(fmtIn[1], fmtIn[2])>>
    /\ UNCHANGED <<geoSupported, hasErrorRegion, loaded, geo, report, inflight,
                   hasInitialData, dom, hist, last, fmtIn, iconIn, iconOut>>

FmtNext == FormatCall

FmtSpec == FmtInit /\ [][FmtNext]_vars

(***************************************************************************)
(* getWeatherIcon on its own                                               *)
(***************************************************************************)
\* the five conditions of the table
KnownConditions == {"Clouds", "Clear", "Rain", "Snow", "Thunderstorm"}

\* case variants, conditions the table lacks, the empty string, and other key names
OtherConditions ==
    {"clouds", "clear", "CLEAR", "rain", "snow", "thunderstorm", "Fog", "Mist",
     "Haze", "Drizzle", "Smoke", "Dust", "icons", ""} \cup ObjectPrototypeKeys

IconInit ==
    /\ InitPage
    /\ fmtIn = <<>>
    /\ fmtOut = <<>>
    /\ iconIn \in {<<Str(c)>> : c \in KnownConditions \cup OtherConditions}
    /\ iconOut = <<>>

\* one call getWeatherIcon(condition)
IconCall ==
    /\ iconOut = <<>>
    /\ iconOut' = <<getWeatherIcon(iconIn[1])>>
    /\ UNCHANGED <<geoSupported, hasErrorRegion, loaded, geo, report, inflight,
                   hasInitialData, dom, hist, last, fmtIn, fmtOut, iconIn>>

IconNext == IconCall

IconSpec == IconInit /\ [][IconNext]_vars

(***************************************************************************)
(* Properties                                                              *)
(***************************************************************************)
GeoFailed == geo \in {"failed", "unsupported"}

\* a step that issues a weather request
IssuesFetch == last'.kind = "timer" \/ hist'.chain # hist.chain

\* a settled weather fetch that the claims count as a failed cycle: a network
\* rejection, a non-success status, a body that is no JSON or JSON null
CycleFails(settled) ==
    \/ settled.r = "reject"
    \/ settled.status \notin 200..299
    \/ settled.body \in {Unparsable, Null}

\* a settled report with a success status
SuccessStatus(settled) == settled.r = "http" /\ settled.status \in 200..299

LocationMessages ==
    {"Location access denied. Please enable permissions", "Location unavailable",
     "Location request timed out", "Error getting location",
     "Geolocation is not supported by this browser.",
     "Error sharing location. Please try again."}

\* the region a location-stage message goes to
ErrorRegionOf(d) == IF hasErrorRegion THEN d.locationError ELSE d.forecast

\* C1 as stated: once the location report has failed, no weather fetch is issued
\* any more.
C1_NoFetchAfterFailedReport ==
    [][report = "failed" => ~IssuesFetch]_vars

\* C1 amended: a failed location report stays failed and the fetch chained to the
\* report is never issued; the only weather fetches are the interval timer's.
C1_FailedReportNeverChains ==
    /\ [](report = "failed" =>
            /\ hist.chain = 0
            /\ \A i \in 1..Len(inflight) : inflight[i].src = "timer")
    /\ [][report = "failed" => report' = "failed"]_vars

\* the report has failed and the timer has issued a weather fetch after it
C1_Witness ==
    /\ report = "failed"
    /\ last.kind = "timer"
    /\ Len(inflight) >= 1

\* C2 as stated: no weather fetch is issued before the location report has been
\* acknowledged.
C2_NoFetchBeforeAck ==
    (hist.timer \/ hist.chain > 0) => report = "acked"

\* C2 amended: the fetch chained to the report is issued in the step that handles
\* the report's acknowledgment and in no other; the timer's fetches are not
\* ordered after the report.
C2_ChainedFetchFollowsAck ==
    /\ [](hist.chain > 0 => report = "acked")
    /\ [][hist'.chain # hist.chain =>
            /\ report = "sent"
            /\ report' = "acked"
            /\ last'.kind = "report"]_vars

\* the timer's fetch was issued and has settled while the report is still
\* unanswered, and the chained fetch follows the acknowledgment later
C2_Witness ==
    /\ report = "acked"
    /\ hist.timer
    /\ hasInitialData
    /\ last.kind = "report"
    /\ hist.chain = 1

\* C3 as stated: once geolocation acquisition has failed, no network call of any
\* kind is issued.
C3_NoCallAfterGeoFailure ==
    [][GeoFailed => ~IssuesFetch /\ hist'.posts = hist.posts]_vars

\* C3 amended: when geolocation acquisition fails, a message is displayed in that
\* step (in the location-error region, or in the forecast region when the page
\* has none), and neither the location report nor the fetch chained to it is ever
\* issued; the interval timer still issues weather fetches.
C3_GeoFailureSendsNoReport ==
    /\ [](GeoFailed => hist.posts = 0 /\ report = "none" /\ hist.chain = 0)
    /\ [][GeoFailed' /\ ~GeoFailed =>
            /\ ErrorRegionOf(dom').k = "text"
            /\ ErrorRegionOf(dom').m \in LocationMessages]_vars
    /\ [][GeoFailed => geo' = geo]_vars

\* the position query failed with code 1 on a page without the error region and
\* the timer has issued a fetch afterwards
C3_Witness ==
    /\ geo = "failed"
    /\ ~hasErrorRegion
    /\ dom.forecast = Text(GeoMessage(1))
    /\ last.kind = "timer"

\* C4: a failed poll cycle writes "Error loading weather data" to the forecast
\* region, and the timer goes on: poll cycles are issued infinitely often, hence
\* again after every failed cycle, however many have failed in a row.
C4_FailedCycleKeepsPolling ==
    /\ [][last'.kind = "weather" /\ CycleFails(last'.settled) =>
            dom'.forecast = WeatherErrorText]_vars
    /\ []<>(last.kind = "timer")

\* a cycle whose body was JSON null has failed after the latch was set, and the
\* message is on the page
C4_Witness ==
    /\ last.kind = "weather"
    /\ last.settled = Http(200, Null)
    /\ hasInitialData
    /\ dom.forecast = WeatherErrorText

\* the location-error message is on the page
ReportErrorShown(d) == ErrorRegionOf(d) = ReportErrorText

\* C5 as stated: a report answered with a success status is acknowledged whatever
\* its body is: the weather fetch is issued in that step and no location-error
\* message is written.
C5_SuccessStatusAcknowledges ==
    [][last'.kind = "report" /\ SuccessStatus(last'.settled) =>
            /\ report' = "acked"
            /\ inflight' = Append(inflight, Request("chain"))
            /\ dom' = dom]_vars

\* C5 amended: a report answered with a success status and a body that parses as
\* JSON is acknowledged whatever the parsed value is: the weather fetch is issued
\* in that step and no location-error message is written. A success status with
\* a body that is no JSON is handled as a failed report: the location-error
\* message is written and no fetch is issued.
C5_SuccessStatusAndJsonAcknowledges ==
    [][last'.kind = "report" /\ SuccessStatus(last'.settled) =>
            IF last'.settled.body # Unparsable
            THEN /\ report' = "acked"
                 /\ inflight' = Append(inflight, Request("chain"))
                 /\ hist'.chain = hist.chain + 1
                 /\ dom' = dom
            ELSE /\ report' = "failed"
                 /\ inflight' = inflight
                 /\ ReportErrorShown(dom')]_vars

\* a report answered 200 with the body null has been acknowledged and its fetch
\* is in flight
C5_Witness ==
    /\ last.kind = "report"
    /\ last.settled = Http(200, Null)
    /\ report = "acked"
    /\ inflight # <<>>
    /\ inflight[Len(inflight)].src = "chain"
    /\ ~ReportErrorShown(dom)

\* C6: the latch hasInitialData starts false and, once true, is true in every
\* later state.
C6_LatchMonotonic ==
    /\ ~hasInitialData
    /\ [][hasInitialData => hasInitialData']_vars

\* the latch is still set after a cycle that failed while another was in flight
C6_Witness ==
    /\ hasInitialData
    /\ last.kind = "weather"
    /\ CycleFails(last.settled)
    /\ inflight # <<>>

\* C7: the caption is written at most once, by the first successful cycle to
\* complete; no successful cycle that completes after it writes it again.
C7_CaptionWrittenOnce ==
    /\ [](hist.captions <= 1)
    /\ [][last'.kind = "weather" /\ ~CycleFails(last'.settled) =>
            /\ hist'.captions # hist.captions <=> ~hasInitialData
            /\ ~hasInitialData => dom'.forecast = CaptionText]_vars
    /\ [][hist'.captions # hist.captions =>
            last'.kind = "weather" /\ ~CycleFails(last'.settled)]_vars

\* after the caption was written, a cycle carrying postgresql_weather has
\* rendered its block, while another cycle is in flight
C7_Witness ==
    /\ hist.captions = 1
    /\ last.kind = "weather"
    /\ last.settled = Http(200, Data(Undef, WeatherB))
    /\ dom.forecast.k = "block"
    /\ inflight # <<>>

\* a fetched body with neither key, or with both keys null
NoRecord(settled) ==
    /\ SuccessStatus(settled)
    /\ settled.body \in {Data(Undef, Undef), Data(Null, Null)}

\* C8: a cycle whose response carries neither mongodb_weather nor
\* postgresql_weather (or both null) leaves every region as it was.
C8_NoRecordChangesNothing ==
    [][last'.kind = "weather" /\ NoRecord(last'.settled) => dom' = dom]_vars

\* the weather object of a fetched body: mongodb_weather when it is an object,
\* else postgresql_weather
RecordOf(body) ==
    IF body.mongodb_weather.t = "object" THEN body.mongodb_weather
    ELSE body.postgresql_weather

\* the last step rendered a weather object
Rendered ==
    /\ last.kind = "weather"
    /\ ~CycleFails(last.settled)
    /\ RecordOf(last.settled.body).t = "object"

\* C9: after a render, the badge shows the literal aqi with the class aqi-<value>
\* whenever aqi is a number or a string, and "--" with the class aqi-unknown
\* exactly when aqi is absent.
C9_AqiBadgeShowsLiteral ==
    Rendered =>
        LET aqi == RecordOf(last.settled.body).aqi
            placeholder ==
                /\ dom.aqiText = Str("--")
                /\ dom.aqiClass = [k |-> "class", prefix |-> "info-value aqi-",
                                   value |-> Str("unknown")]
        IN  /\ aqi.t \in {"number", "string"} =>
                /\ dom.aqiText = aqi
                /\ dom.aqiClass = [k |-> "class", prefix |-> "info-value aqi-",
                                   value |-> aqi]
            /\ placeholder <=> aqi = Undef

\* C10: formatTimestamp returns "N/A" for every malformed timestamp and another
\* string for every valid ISO timestamp with an integer offset.
C10_FormatFailsSoft ==
    fmtOut # <<>> =>
        /\ fmtIn[1] \in MalformedTimestamps => fmtOut[1] = Str("N/A")
        /\ fmtIn[1] \in ValidTimestamps => fmtOut[1] # Str("N/A")

\* C11: getWeatherIcon maps the five conditions to their icons, Clear to the sun,
\* and every other string to the default icon "fas fa-cloud".
C11_IconTableWithDefault ==
    iconOut # <<>> =>
        LET c == iconIn[1].s
        IN  iconOut[1] =
                CASE c = "Clouds" -> "fas fa-cloud"
                  [] c = "Clear" -> "fas fa-sun"
                  [] c = "Rain" -> "fas fa-cloud-rain"
                  [] c = "Snow" -> "fas fa-snowflake"
                  [] c = "Thunderstorm" -> "fas fa-bolt"
                  [] OTHER -> "fas fa-cloud"

\* C12: the location report is issued at most once, and exactly once when the
\* position query succeeded; the position is queried at most once; a failed
\* report or a failed poll cycle issues no report and no query.
C12_ReportIssuedOnce ==
    /\ [](hist.posts <= 1 /\ hist.queries <= 1)
    /\ [](hist.posts = 1 <=> geo = "ok")
    /\ [][\/ last'.kind = "report" /\ report' = "failed"
          \/ last'.kind = "weather" /\ CycleFails(last'.settled)
          => hist'.posts = hist.posts /\ hist'.queries = hist.queries /\ geo' = geo]_vars

\* the one report has failed and a poll cycle has failed after it
C12_Witness ==
    /\ geo = "ok"
    /\ report = "failed"
    /\ hist.posts = 1
    /\ last.kind = "weather"
    /\ CycleFails(last.settled)

\* the step writes the message to the location-error region and leaves the
\* forecast region, or writes it to the forecast region when the page has no
\* location-error region
WritesLocationMessage(message) ==
    IF hasErrorRegion
    THEN dom'.locationError = Text(message) /\ dom'.forecast = dom.forecast
    ELSE dom'.forecast = Text(message)

\* C13: each location-stage failure writes its own message: code 1, 2, 3, any
\* other code, a missing capability, and a failed report; to the location-error
\* region when it exists and otherwise to the forecast region.
C13_LocationFailureMessages ==
    [][/\ last'.kind = "positionError" =>
            WritesLocationMessage(
                CASE last'.code = 1 -> "Location access denied. Please enable permissions"
                  [] last'.code = 2 -> "Location unavailable"
                  [] last'.code = 3 -> "Location request timed out"
                  [] OTHER -> "Error getting location")
       /\ (last'.kind = "onload" /\ ~geoSupported) =>
            WritesLocationMessage("Geolocation is not supported by this browser.")
       /\ (last'.kind = "report" /\ report' = "failed") =>
            WritesLocationMessage("Error sharing location. Please try again.")]_vars

\* a position error with a code outside the table on a page with the
\* location-error region
C13_Witness ==
    /\ last.kind = "positionError"
    /\ last.code = 4
    /\ hasErrorRegion
    /\ dom.locationError = Text("Error getting location")

\* C14: the latch is true if and only if a weather record has been rendered.
C14_LatchIffRendered ==
    hasInitialData <=> hist.rendered

\* the regions a render derives from the record, the forecast region apart
RecordRegions(d) ==
    <<d.locationName, d.lastUpdated, d.icon, d.humidity, d.wind, d.aqiText, d.aqiClass>>

\* what those regions show of one weather record
RegionsOf(w) ==
    <<[k |-> "place", city |-> w.city, country |-> w.country],
      [k |-> "updated",
       at |-> formatTimestamp(w.timestamp,
                              IF Truthy(w.timezone_offset) THEN w.timezone_offset
                              ELSE Num(0))],
      [k |-> "class", name |-> getWeatherIcon(w.condition)],
      [k |-> "percent", value |-> w.humidity],
      [k |-> "speed", value |-> w.wind_speed],
      IF Truthy(w.aqi) THEN w.aqi ELSE Str("--"),
      [k |-> "class", prefix |-> "info-value aqi-",
       value |-> IF Truthy(w.aqi) THEN w.aqi ELSE Str("unknown")]>>

\* the forecast block of a record
ForecastBlock(w) ==
    [k |-> "block", condition |-> w.condition, description |-> w.description,
     temperature |-> w.temperature, feels_like |-> w.feels_like]

\* C15: once a cycle that fetched a weather record has completed, the forecast
\* region shows that record's block and the other regions show that record.
C15_RenderedRecordIsShown ==
    Rendered =>
        LET w == RecordOf(last.settled.body)
        IN  /\ dom.forecast = ForecastBlock(w)
            /\ RecordRegions(dom) = RegionsOf(w)

\* C16: between two callbacks the record-derived regions are either all as the
\* markup left them or all show one and the same fetched weather record.
C16_RegionsShowOneRecord ==
    \/ RecordRegions(dom) = RecordRegions(InitDom(hasErrorRegion))
    \/ \E w \in WeatherObjects : RecordRegions(dom) = RegionsOf(w)

\* a record without aqi is on the page with the latch set, a failed cycle has
\* come after it and another cycle is in flight
C16_Witness ==
    /\ RecordRegions(dom) = RegionsOf(WeatherB)
    /\ hasInitialData
    /\ last.kind = "weather"
    /\ CycleFails(last.settled)
    /\ inflight # <<>>

\* the key is present and not null
Present(v) == v \notin {Undef, Null}

\* the step leaves the page showing the weather object w
Shows(w) ==
    /\ RecordRegions(dom') = RegionsOf(w)
    /\ hasInitialData => dom'.forecast = ForecastBlock(w)

\* C17: a fetched payload renders mongodb_weather when that key is present and
\* not null, otherwise postgresql_weather when that key is present and not null;
\* with both keys present mongodb_weather alone determines what is shown.
C17_MongoThenPostgres ==
    [][last'.kind = "weather" /\ ~CycleFails(last'.settled) =>
            LET body == last'.settled.body
            IN  IF Present(body.mongodb_weather) THEN Shows(body.mongodb_weather)
                ELSE IF Present(body.postgresql_weather)
                THEN Shows(body.postgresql_weather)
                ELSE RecordRegions(dom') = RecordRegions(dom)]_vars

\* a payload with both keys has been rendered from mongodb_weather
C17_Witness ==
    /\ last.kind = "weather"
    /\ last.settled = Http(200, Data(WeatherA, WeatherB))
    /\ RecordRegions(dom) = RegionsOf(WeatherA)
    /\ dom.forecast = ForecastBlock(WeatherA)

\* C18: the response of a request is not rendered once the response of a request
\* issued after it has been rendered.
C18_NoOlderResponseRendered ==
    Rendered => ~last.overtaken

LocationTexts == {Text(m) : m \in LocationMessages}

\* a poll cycle that writes the forecast region: one that fails, one that renders
\* a record, and the first one to complete without failing
WritingCycle ==
    /\ last'.kind = "weather"
    /\ \/ last'.failed
       \/ ~hasInitialData
       \/ Truthy(RecordOf(last'.settled.body))

\* C19 as stated: a location-stage error message, once displayed, stays displayed
\* through every later step, whether or not the page has a location-error region.
C19_LocationMessageStays ==
    [][ErrorRegionOf(dom) \in LocationTexts => ErrorRegionOf(dom') = ErrorRegionOf(dom)]_vars

\* C19: on a page with a location-error region a displayed location-stage
\* message stays through every later step; on a page without one the message is
\* in the forecast region, and every later poll cycle that writes the forecast
\* region replaces it.
C19_LocationMessageStaysInItsRegion ==
    /\ [][hasErrorRegion /\ dom.locationError \in LocationTexts
             => dom'.locationError = dom.locationError]_vars
    /\ [][~hasErrorRegion /\ dom.forecast \in LocationTexts /\ WritingCycle
             => dom'.forecast \notin LocationTexts]_vars

C19_Witness ==
    /\ hasErrorRegion
    /\ dom.locationError \in LocationTexts
    /\ last.kind = "weather"
    /\ last.failed
    /\ dom.forecast = WeatherErrorText

====
